---------------------------- MODULE Spec2Model ----------------------------
(***************************************************************************)
(* State-machine model of the ESP32 GPS tracker sketch                     *)
(* (src/gps-tracking-alert.ino): setup(), loop() and the functions they    *)
(* call.  The sketch is single threaded; every function is modelled as the *)
(* sequence of steps it executes, `pc' being the position of the single    *)
(* thread of control.  The environment (WiFi link, GPS byte stream, NTP,   *)
(* reverse geocoder, SMTP server, GeoLinker library) is read at the places *)
(* where the code reads it, its answers drawn from small sets.             *)
(*                                                                         *)
(* Time is the value of millis() in milliseconds.  It advances only in the *)
(* delay() calls of the code and in the blocking mail transfer.            *)
(***************************************************************************)
EXTENDS Integers, Sequences, FiniteSets, TLC

(***************************************************************************)
(* Bounds of the model (not program constants).                            *)
(***************************************************************************)
MaxIter == 4            \* loop() iterations (plain, or one fast-forwarded stretch)
MaxRx == 2              \* gps.encode() calls followed in a run
MaxFaults == 2          \* adverse answers of the environment in a run: a link
                        \* change, a late or failed join, no NTP answer, a
                        \* failed GeoLinker connect, geocoder or SMTP connect,
                        \* a failed mail transfer
MaxClock == 800         \* largest millis() at which a single render pass is examined

(***************************************************************************)
(* Program constants.                                                      *)
(***************************************************************************)
LED_OFF == 0
LED_ON == 1
LED_BLINK_SLOW == 2
LED_BLINK_FAST == 3
LED_BLINK_INTERVAL == 500
LED_FAST_BLINK_INTERVAL == 200
LOCATION_SEND_INTERVAL == 300000
GPS_DATA_TIMEOUT == 5000
WIFI_CONNECT_TIMEOUT == 20000
TIME_SYNC_TIMEOUT == 10000
POLL_DELAY == 500
LOOP_DELAY == 100
SETUP_DELAY == 1000
LED_TEST_DELAY == 300

MailTime == 30 * LOOP_DELAY   \* time the blocking SMTP transfer is taken to last

NoTime == 0 - 1         \* "no such instant yet" in the observation variables

\* unsigned long subtraction, as in `millis() - startTime'.  Every run explored
\* here stays far below 2^32 ms after boot and the clock never runs backwards,
\* so the subtraction does not wrap.
Sub32(a, b) == a - b

(***************************************************************************)
(* unsigned long at its full width.  A value of the 32-bit type is a pair  *)
(* of 16-bit halves [hi, lo], standing for hi * 2^16 + lo, and the         *)
(* operations are those of the type: everything is taken modulo 2^32.      *)
(***************************************************************************)
LimbBase == 2^16

\* the 32-bit value of a number in 0 .. 2^31 - 1
ToU32(n) == [hi |-> n \div LimbBase, lo |-> n % LimbBase]

\* a + b of two unsigned long values
AddU32(a, b) ==
  LET carry == IF a.lo + b.lo >= LimbBase THEN 1 ELSE 0
  IN [hi |-> (a.hi + b.hi + carry) % LimbBase, lo |-> (a.lo + b.lo) % LimbBase]

\* variant: a difference that does not wrap (zero when b is ahead of a)
SubU32_clamped(a, b) ==
  IF a.hi < b.hi \/ (a.hi = b.hi /\ a.lo < b.lo)
    THEN [hi |-> 0, lo |-> 0]
    ELSE LET borrow == IF a.lo < b.lo THEN 1 ELSE 0
         IN [hi |-> a.hi - b.hi - borrow, lo |-> (a.lo - b.lo) % LimbBase]

\* a - b of two unsigned long values
SubU32(a, b) ==
  LET borrow == IF a.lo < b.lo THEN 1 ELSE 0
  IN [hi |-> (a.hi - b.hi - borrow) % LimbBase, lo |-> (a.lo - b.lo) % LimbBase]

\* a > b of two unsigned long values
GtU32(a, b) == a.hi > b.hi \/ (a.hi = b.hi /\ a.lo > b.lo)

VARIABLES
  now,                \* millis()
  pc,                 \* position of the thread of control
  iter,               \* loop() iterations started so far
  connRet,            \* where connectToWiFi() returns to
  sendRet,            \* where sendLocationEmail() returns to
  \* ---- environment
  wifiUp,             \* WiFi.status() == WL_CONNECTED
  joinAt,             \* instant at which the association begun by WiFi.begin completes
  syncAt,             \* instant at which the NTP answer arrives
  faults,             \* adverse answers of the environment so far
  rxTotal,            \* gps.encode() calls so far
  \* ---- globals of the sketch
  wifiLEDState, gpsLEDState, systemLEDState,
  lastLEDUpdate, ledBlinkState,
  pins,               \* last value written to each LED pin by digitalWrite
  gpsDataValid, firstGPSLock, currentLocationName,
  lastLocationSend,
  lastGPSData,        \* static local of updateGPSData
  \* ---- locals that live across steps
  startTime,          \* startTime of connectToWiFi / start of syncTime
  timeOk,             \* syncTime: the last time(nullptr) read is past the threshold
  gpsDataReceived,    \* updateGPSData
  geoStatus,          \* loop: geoStatus
  \* ---- observation (history) variables, written but never read by the code model
  obs

vars == <<now, pc, iter, connRet, sendRet, wifiUp, joinAt, syncAt, faults, rxTotal,
          wifiLEDState, gpsLEDState, systemLEDState, lastLEDUpdate, ledBlinkState,
          pins, gpsDataValid, firstGPSLock, currentLocationName, lastLocationSend,
          lastGPSData, startTime, timeOk, gpsDataReceived, geoStatus, obs>>

ledStateVars == <<wifiLEDState, gpsLEDState, systemLEDState>>
blinkVars == <<lastLEDUpdate, ledBlinkState, pins>>
envVars == <<wifiUp, joinAt, syncAt>>
gpsVars == <<gpsDataValid, firstGPSLock, lastGPSData, gpsDataReceived, rxTotal>>
alertVars == <<currentLocationName, lastLocationSend>>
callVars == <<connRet, sendRet, startTime, timeOk, geoStatus>>

(***************************************************************************)
(* Observation record.  Nothing in the code model reads it.  The fields    *)
(* about one loop() iteration are cleared when the iteration ends.         *)
(***************************************************************************)
ObsInit ==
  [ usableDecoded  |-> FALSE,   \* a complete frame with a usable location was decoded
    firstLockCalls |-> 0,       \* executions of the first-lock call (line 411)
    lastAttemptAt  |-> NoTime,  \* instant of the last arrival at the SMTP step
    attemptInTick  |-> FALSE,   \* an attempt reached the SMTP step in this iteration
    mailSent       |-> FALSE,   \* MailClient.sendMail has returned true at least once
    syncFailed     |-> FALSE,   \* syncTime() returned false
    lookups        |-> 0,       \* getAddressFromCoordinates calls of the running/last send
    evalDone       |-> FALSE,   \* the periodic test was evaluated in this iteration
    evalElapsed    |-> 0,       \*   millis() - lastLocationSend at the test
    evalValid      |-> FALSE,   \*   gpsDataValid at the test
    evalLink       |-> FALSE,   \*   link state at the test
    evalFired      |-> FALSE,   \*   the branch was entered
    evalLast       |-> 0,       \*   lastLocationSend at the test
    trueElapsed    |-> NoTime,  \* time really passed since lastLocationSend was set
    ingDone        |-> FALSE,   \* updateGPSData has returned in this iteration
    ingBytes       |-> FALSE,   \*   it consumed at least one character
    ingSilence     |-> 0,       \*   millis() - lastGPSData when it ran the check
    ingPrevLED     |-> LED_OFF, \*   gpsLEDState when it was called
    connResult     |-> "none",  \* WiFi.status() read at line 313 of the last connect
    connPolls      |-> 0,       \* delay(500) polls of the running/last connect
    connElapsed    |-> 0,       \* millis() - startTime when the poll loop was left
    connExitUp     |-> FALSE ]  \* WiFi.status() read when the poll loop was left

ObsTickReset(o) ==
  [o EXCEPT !.attemptInTick = FALSE, !.lookups = 0,
            !.evalDone = FALSE, !.evalElapsed = 0, !.evalValid = FALSE,
            !.evalLink = FALSE, !.evalFired = FALSE, !.evalLast = 0,
            !.ingDone = FALSE, !.ingBytes = FALSE, !.ingSilence = 0,
            !.ingPrevLED = LED_OFF,
            !.connResult = "none", !.connPolls = 0, !.connElapsed = 0,
            !.connExitUp = FALSE]

(***************************************************************************)
(* Environment input sets.                                                 *)
(***************************************************************************)
NoJoin == WIFI_CONNECT_TIMEOUT + POLL_DELAY   \* the association does not complete in time
JoinDelays == {0, POLL_DELAY, WIFI_CONNECT_TIMEOUT, NoJoin}
NoSync == TIME_SYNC_TIMEOUT + POLL_DELAY      \* no NTP answer in time
SyncDelays == {0, NoSync}
\* what one gps.encode(c) call can yield: no complete sentence, a complete
\* sentence without a valid location, a complete sentence with a valid location
RxEvents == {"byte", "nofix", "fix"}
\* what geo.loop() can return: 0, the six values handleGeoLinkerStatus names,
\* any other value
GeoStatuses == {"none", "sent", "gps_error", "network_error", "bad_request",
                "parse_error", "internal_server_error", "unknown"}
GeocodeResults == {"ok", "fail", "hang"}

\* an adverse answer is taken from the budget of the run
Charge(adverse) ==
  IF adverse THEN faults < MaxFaults /\ faults' = faults + 1
             ELSE faults' = faults

(***************************************************************************)
(* LED rendering: controlLED, updateLEDs.                                  *)
(***************************************************************************)
\* variant: the fast blink is rendered from the shared toggle bit
controlLED_fastFromToggle(state, blink, t) ==
  CASE state = LED_OFF -> FALSE
    [] state = LED_ON -> TRUE
    [] state = LED_BLINK_SLOW -> blink
    [] state = LED_BLINK_FAST -> ~blink

controlLED(state, blink, t) ==
  CASE state = LED_OFF -> FALSE
    [] state = LED_ON -> TRUE
    [] state = LED_BLINK_SLOW -> blink
    [] state = LED_BLINK_FAST ->
         (t % (LED_FAST_BLINK_INTERVAL * 2)) < LED_FAST_BLINK_INTERVAL

\* variant: the slow clock flips at the fast interval
BlinkDue_fastInterval(t, last) == Sub32(t, last) >= LED_FAST_BLINK_INTERVAL

\* the test of line 186
BlinkDue(t, last) == Sub32(t, last) >= LED_BLINK_INTERVAL

\* updateLEDs() called at instant t; the LED states are those of the current state
UpdateLEDs(t) ==
  LET flip == BlinkDue(t, lastLEDUpdate)
      blink == IF flip THEN ~ledBlinkState ELSE ledBlinkState
  IN /\ ledBlinkState' = blink
     /\ lastLEDUpdate' = IF flip THEN t ELSE lastLEDUpdate
     /\ pins' = [wifi |-> controlLED(wifiLEDState, blink, t),
                 gps |-> controlLED(gpsLEDState, blink, t),
                 system |-> controlLED(systemLEDState, blink, t)]

(***************************************************************************)
(* Initial state: the globals as initialised at lines 67-73 and 122-129.   *)
(***************************************************************************)
Init ==
  /\ now = 0 /\ pc = "setup" /\ iter = 0
  /\ connRet = "none" /\ sendRet = "none"
  /\ wifiUp = FALSE /\ joinAt = 0 /\ syncAt = 0 /\ faults = 0 /\ rxTotal = 0
  /\ wifiLEDState = LED_OFF /\ gpsLEDState = LED_OFF /\ systemLEDState = LED_OFF
  /\ lastLEDUpdate = 0 /\ ledBlinkState = FALSE
  /\ pins = [wifi |-> FALSE, gps |-> FALSE, system |-> FALSE]
  /\ gpsDataValid = FALSE /\ firstGPSLock = TRUE
  /\ currentLocationName = "Unknown Location"
  /\ lastLocationSend = 0 /\ lastGPSData = 0
  /\ startTime = 0 /\ timeOk = FALSE
  /\ gpsDataReceived = FALSE /\ geoStatus = "none"
  /\ obs = ObsInit

(***************************************************************************)
(* The environment: the WiFi link comes up or drops by itself.  The code   *)
(* can observe the link only where it reads WiFi.status(), so the change   *)
(* is placed right before those reads.                                     *)
(***************************************************************************)
LinkReadPoints == {"wifi_check", "connect_final", "send", "geocode"}

LinkChange ==
  /\ pc \in LinkReadPoints
  /\ Charge(TRUE)
  /\ wifiUp' = ~wifiUp
  /\ UNCHANGED <<now, pc, iter, joinAt, syncAt, ledStateVars, blinkVars, gpsVars,
                 alertVars, callVars, obs>>

(***************************************************************************)
(* setup(), up to the call of connectToWiFi (lines 255-273).               *)
(***************************************************************************)
SetupBegin ==
  /\ pc = "setup"
  /\ now' = now + SETUP_DELAY + 3 * LED_TEST_DELAY
  /\ pins' = [wifi |-> FALSE, gps |-> FALSE, system |-> FALSE]
  /\ systemLEDState' = LED_BLINK_SLOW
  /\ gpsLEDState' = LED_BLINK_SLOW
  /\ wifiLEDState' = LED_BLINK_SLOW
  /\ pc' = "connect_begin" /\ connRet' = "sync_begin"
  /\ UNCHANGED <<iter, sendRet, envVars, faults, lastLEDUpdate, ledBlinkState,
                 gpsVars, alertVars, startTime, timeOk, geoStatus, obs>>

(***************************************************************************)
(* connectToWiFi (lines 301-322).                                          *)
(***************************************************************************)
\* variant: the timeout compared with <= instead of <
PollAgain_inclusive(up, elapsed) == ~up /\ elapsed <= WIFI_CONNECT_TIMEOUT

\* the condition of the poll loop, line 307
PollAgain(up, elapsed) == ~up /\ elapsed < WIFI_CONNECT_TIMEOUT

\* variant: a failed attempt leaves the indicator off
ConnectLED_offOnFailure(up) == IF up THEN LED_ON ELSE LED_OFF

\* the LED state chosen at lines 313-321
ConnectLED(up) == IF up THEN LED_ON ELSE LED_BLINK_FAST

ConnectBegin(d) ==
  /\ pc = "connect_begin"
  /\ Charge(d # 0)
  /\ wifiLEDState' = LED_BLINK_SLOW
  /\ startTime' = now
  /\ joinAt' = now + d
  /\ wifiUp' = (wifiUp \/ d = 0)
  /\ obs' = [obs EXCEPT !.connPolls = 0, !.connResult = "none", !.connElapsed = 0,
                        !.connExitUp = FALSE]
  /\ pc' = "connect_loop"
  /\ UNCHANGED <<now, iter, connRet, sendRet, syncAt, gpsLEDState, systemLEDState,
                 blinkVars, gpsVars, alertVars, timeOk, geoStatus>>

ConnectPoll ==
  /\ pc = "connect_loop"
  /\ PollAgain(wifiUp, Sub32(now, startTime))
  /\ now' = now + POLL_DELAY
  /\ UpdateLEDs(now')
  /\ wifiUp' = (wifiUp \/ now' >= joinAt)
  /\ obs' = [obs EXCEPT !.connPolls = @ + 1]
  /\ UNCHANGED <<pc, iter, joinAt, syncAt, faults, ledStateVars, gpsVars, alertVars,
                 callVars>>

ConnectExit ==
  /\ pc = "connect_loop"
  /\ ~PollAgain(wifiUp, Sub32(now, startTime))
  /\ obs' = [obs EXCEPT !.connElapsed = Sub32(now, startTime),
                        !.connExitUp = wifiUp]
  /\ pc' = "connect_final"
  /\ joinAt' = 0
  /\ UNCHANGED <<now, iter, wifiUp, syncAt, faults, ledStateVars, blinkVars, gpsVars,
                 alertVars, callVars>>

ConnectFinal ==
  /\ pc = "connect_final"
  /\ wifiLEDState' = ConnectLED(wifiUp)
  /\ obs' = [obs EXCEPT !.connResult = IF wifiUp THEN "up" ELSE "down"]
  /\ pc' = connRet
  /\ connRet' = "none" /\ startTime' = 0
  /\ UNCHANGED <<now, iter, sendRet, envVars, faults, gpsLEDState, systemLEDState,
                 blinkVars, gpsVars, alertVars, timeOk, geoStatus>>

(***************************************************************************)
(* syncTime (lines 324-345) and its caller's branch (lines 276-281).       *)
(***************************************************************************)
SyncAgain(ok, elapsed) == ~ok /\ elapsed < TIME_SYNC_TIMEOUT

SyncBegin(d) ==
  /\ pc = "sync_begin"
  /\ Charge(d # 0)
  /\ syncAt' = now + d
  /\ timeOk' = (d = 0)
  /\ startTime' = now
  /\ pc' = "sync_loop"
  /\ UNCHANGED <<now, iter, connRet, sendRet, wifiUp, joinAt, ledStateVars,
                 blinkVars, gpsVars, alertVars, geoStatus, obs>>

SyncPoll ==
  /\ pc = "sync_loop"
  /\ SyncAgain(timeOk, Sub32(now, startTime))
  /\ now' = now + POLL_DELAY
  /\ UpdateLEDs(now')
  /\ timeOk' = (now' >= syncAt)
  /\ UNCHANGED <<pc, iter, connRet, sendRet, envVars, faults, ledStateVars, gpsVars,
                 alertVars, startTime, geoStatus, obs>>

\* variant: a failed synchronisation is shown as a critical error
SyncLED_critical(ok) == IF ~ok THEN LED_ON ELSE LED_OFF

\* the system indicator state chosen at lines 276-281
SyncLED(ok) == IF ~ok THEN LED_BLINK_SLOW ELSE LED_OFF

SyncExit ==
  /\ pc = "sync_loop"
  /\ ~SyncAgain(timeOk, Sub32(now, startTime))
  /\ systemLEDState' = SyncLED(timeOk)
  /\ obs' = [obs EXCEPT !.syncFailed = ~timeOk]
  /\ pc' = "initgeo"
  /\ syncAt' = 0 /\ startTime' = 0 /\ timeOk' = FALSE
  /\ UNCHANGED <<now, iter, connRet, sendRet, wifiUp, joinAt, faults, wifiLEDState,
                 gpsLEDState, blinkVars, gpsVars, alertVars, geoStatus>>

(***************************************************************************)
(* initializeGeoLinker (lines 351-378); `ok' is what geo.connectToWiFi()   *)
(* returns.                                                                *)
(***************************************************************************)
\* variant: a failed GeoLinker connect is shown as an error
GeoInitLED_error(up, ok, led) == IF up /\ ~ok THEN LED_BLINK_FAST ELSE led

\* the system indicator state after lines 366-375
GeoInitLED(up, ok, led) == IF up /\ ~ok THEN LED_BLINK_SLOW ELSE led

InitGeo(ok) ==
  /\ pc = "initgeo"
  /\ (wifiUp \/ ok)          \* geo.connectToWiFi() is called only with the link up
  /\ Charge(~ok)
  /\ systemLEDState' = GeoInitLED(wifiUp, ok, systemLEDState)
  /\ pc' = "wifi_check"
  /\ UNCHANGED <<now, iter, connRet, sendRet, envVars, wifiLEDState, gpsLEDState,
                 blinkVars, gpsVars, alertVars, startTime, timeOk, geoStatus, obs>>

(***************************************************************************)
(* loop(), lines 707-712: the connectivity check.                          *)
(***************************************************************************)
LoopWiFiCheck ==
  /\ pc = "wifi_check"
  /\ iter < MaxIter
  /\ iter' = iter + 1
  /\ IF ~wifiUp
       THEN pc' = "connect_begin" /\ connRet' = "gps"
       ELSE pc' = "gps" /\ connRet' = connRet
  /\ obs' = [obs EXCEPT !.ingPrevLED = gpsLEDState]
  /\ UNCHANGED <<now, sendRet, envVars, faults, ledStateVars, blinkVars, gpsVars,
                 alertVars, startTime, timeOk, geoStatus>>

(***************************************************************************)
(* updateGPSData (lines 384-427).  One GpsRead is one iteration of the     *)
(* while loop; GpsEnd is the loop's exit and the staleness check.          *)
(***************************************************************************)
\* variant: any complete sentence sets the flag
ValidAfter_anySentence(ev, valid) == IF ev \in {"fix", "nofix"} THEN TRUE ELSE valid

\* gpsDataValid after gps.encode(c) yielded ev (lines 391-395)
ValidAfter(ev, valid) == IF ev = "fix" THEN TRUE ELSE valid

\* variant: the flag is not cleared
FirstLockAfterAlert_kept(first) == first

\* firstGPSLock after the first-lock branch was taken (line 409)
FirstLockAfterAlert(first) == FALSE

\* gpsLEDState after gps.encode(c) yielded ev (lines 398, 415)
LedAfter(ev, led) ==
  CASE ev = "fix" -> LED_ON
    [] ev = "nofix" -> LED_BLINK_SLOW
    [] OTHER -> led

\* variant: the indicator is never switched off
StaleLED_never(silence, led) == led

\* gpsLEDState after the check of lines 422-426 when nothing was received
StaleLED(silence, led) == IF silence > GPS_DATA_TIMEOUT THEN LED_OFF ELSE led

GpsRead(ev) ==
  /\ pc = "gps"
  /\ rxTotal < MaxRx
  /\ rxTotal' = rxTotal + 1
  /\ gpsDataReceived' = TRUE
  /\ gpsDataValid' = ValidAfter(ev, gpsDataValid)
  /\ gpsLEDState' = LedAfter(ev, gpsLEDState)
  /\ IF ev = "fix" /\ firstGPSLock
       THEN /\ firstGPSLock' = FirstLockAfterAlert(firstGPSLock)
            /\ pc' = "send" /\ sendRet' = "gps"
            /\ obs' = [obs EXCEPT !.usableDecoded = TRUE,
                                  !.firstLockCalls = @ + 1]
       ELSE /\ firstGPSLock' = firstGPSLock
            /\ pc' = "gps" /\ sendRet' = sendRet
            /\ obs' = [obs EXCEPT !.usableDecoded = @ \/ ev = "fix"]
  /\ UNCHANGED <<now, iter, connRet, envVars, faults, wifiLEDState, systemLEDState,
                 blinkVars, alertVars, lastGPSData, startTime, timeOk, geoStatus>>

GpsEnd ==
  /\ pc = "gps"
  /\ LET silence == Sub32(now, lastGPSData)
     IN /\ lastGPSData' = IF gpsDataReceived THEN now ELSE lastGPSData
        /\ gpsLEDState' = IF gpsDataReceived THEN gpsLEDState
                          ELSE StaleLED(silence, gpsLEDState)
        /\ obs' = [obs EXCEPT !.ingDone = TRUE, !.ingBytes = gpsDataReceived,
                              !.ingSilence = silence]
  /\ gpsDataReceived' = FALSE
  /\ pc' = "geo"
  /\ UNCHANGED <<now, iter, connRet, sendRet, envVars, faults, rxTotal, wifiLEDState,
                 systemLEDState, blinkVars, gpsDataValid, firstGPSLock, alertVars,
                 startTime, timeOk, geoStatus>>

(***************************************************************************)
(* loop(), lines 717-721: geo.loop() and handleGeoLinkerStatus (lines      *)
(* 677-701), which only prints.                                            *)
(***************************************************************************)
\* variant: a GPS error status clears the validity flag
GeoLoop_clearsFixOnError(st) ==
  /\ pc = "geo"
  /\ geoStatus' = st
  /\ gpsDataValid' = IF st = "gps_error" THEN FALSE ELSE gpsDataValid
  /\ pc' = "periodic"
  /\ UNCHANGED <<now, iter, connRet, sendRet, envVars, faults, ledStateVars,
                 blinkVars, firstGPSLock, lastGPSData, gpsDataReceived, rxTotal,
                 alertVars, startTime, timeOk, obs>>

GeoLoop(st) ==
  /\ pc = "geo"
  /\ geoStatus' = st
  /\ pc' = "periodic"
  /\ UNCHANGED <<now, iter, connRet, sendRet, envVars, faults, ledStateVars,
                 blinkVars, gpsVars, alertVars, startTime, timeOk, obs>>

(***************************************************************************)
(* loop(), lines 723-728: the periodic update.                             *)
(***************************************************************************)
\* variant: the interval compared with >= instead of >
PeriodicDue_inclusive(t, last, valid) ==
  Sub32(t, last) >= LOCATION_SEND_INTERVAL /\ valid

\* the condition of line 724 on unsigned long operands
PeriodicDueU32(t, last, valid) ==
  GtU32(SubU32(t, last), ToU32(LOCATION_SEND_INTERVAL)) /\ valid

\* the condition of line 724
PeriodicDue(t, last, valid) == PeriodicDueU32(ToU32(t), ToU32(last), valid)

PeriodicCheck ==
  /\ pc = "periodic"
  /\ LET due == PeriodicDue(now, lastLocationSend, gpsDataValid)
     IN /\ obs' = [obs EXCEPT !.evalDone = TRUE,
                              !.evalElapsed = Sub32(now, lastLocationSend),
                              !.evalValid = gpsDataValid,
                              !.evalLink = wifiUp,
                              !.evalFired = due,
                              !.evalLast = lastLocationSend]
        /\ IF due
             THEN pc' = "send" /\ sendRet' = "periodic_done"
             ELSE pc' = "delay" /\ sendRet' = sendRet
  /\ geoStatus' = "none"      \* the local is dead after line 721
  /\ UNCHANGED <<now, iter, connRet, envVars, faults, ledStateVars, blinkVars,
                 gpsVars, alertVars, startTime, timeOk>>

\* lastLocationSend after the periodic branch (line 727), t being millis() there
LastSendAfterPeriodic(t, last) == t

PeriodicDone ==
  /\ pc = "periodic_done"
  /\ lastLocationSend' = LastSendAfterPeriodic(now, lastLocationSend)
  /\ pc' = "delay"
  /\ UNCHANGED <<now, iter, connRet, sendRet, envVars, faults, ledStateVars,
                 blinkVars, gpsVars, currentLocationName, startTime, timeOk,
                 geoStatus, obs>>

LoopDelay ==
  /\ pc = "delay"
  /\ now' = now + LOOP_DELAY
  /\ obs' = ObsTickReset(obs)
  /\ pc' = "wifi_check"
  /\ UNCHANGED <<iter, connRet, sendRet, envVars, faults, ledStateVars, blinkVars,
                 gpsVars, alertVars, startTime, timeOk, geoStatus>>

(***************************************************************************)
(* sendLocationEmail (lines 432-486) and getAddressFromCoordinates (lines  *)
(* 606-652).                                                               *)
(***************************************************************************)
\* the guard of line 433
CanSend(up, valid) == up /\ valid

SendBegin ==
  /\ pc = "send"
  /\ obs' = [obs EXCEPT !.lookups = 0]
  /\ IF CanSend(wifiUp, gpsDataValid)
       THEN pc' = "geocode" /\ sendRet' = sendRet
       ELSE pc' = sendRet /\ sendRet' = "none"
  /\ UNCHANGED <<now, iter, connRet, envVars, faults, ledStateVars, blinkVars,
                 gpsVars, alertVars, startTime, timeOk, geoStatus>>

\* variant: one sentinel for every failure
AddressOf_oneSentinel(up, res) ==
  IF up /\ res = "ok" THEN "address" ELSE "Address lookup failed"

\* the string getAddressFromCoordinates returns
AddressOf(up, res) ==
  IF ~up THEN "Network unavailable"
  ELSE IF res = "ok" THEN "address" ELSE "Address lookup failed"

Geocode(res) ==
  /\ pc = "geocode"
  /\ (wifiUp \/ res = "ok")   \* no request is made with the link down
  /\ Charge(res # "ok")
  /\ obs' = [obs EXCEPT !.lookups = @ + 1]
  /\ IF res = "hang"
       THEN \* the peer never closes: the read loop of lines 626-637 never ends
            pc' = "hung" /\ currentLocationName' = currentLocationName
       ELSE pc' = "smtp" /\ currentLocationName' = AddressOf(wifiUp, res)
  /\ UNCHANGED <<now, iter, connRet, sendRet, envVars, ledStateVars, blinkVars,
                 gpsVars, lastLocationSend, startTime, timeOk, geoStatus>>

SmtpConnect(ok) ==
  /\ pc = "smtp"
  /\ Charge(~ok)
  /\ obs' = [obs EXCEPT !.lastAttemptAt = now, !.attemptInTick = TRUE]
  /\ IF ok
       THEN pc' = "sendmail" /\ sendRet' = sendRet
       ELSE pc' = sendRet /\ sendRet' = "none"
  /\ UNCHANGED <<now, iter, connRet, envVars, ledStateVars, blinkVars, gpsVars,
                 alertVars, startTime, timeOk, geoStatus>>

SendMail(ok) ==
  /\ pc = "sendmail"
  /\ Charge(~ok)
  /\ now' = now + MailTime
  /\ obs' = [obs EXCEPT !.mailSent = @ \/ ok]
  /\ pc' = sendRet /\ sendRet' = "none"
  /\ UNCHANGED <<iter, connRet, envVars, ledStateVars, blinkVars, gpsVars,
                 alertVars, startTime, timeOk, geoStatus>>

(***************************************************************************)
(* Fast-forward: n consecutive iterations of loop() (lines 707-731) in     *)
(* which the link is up, no character arrives and the periodic update is   *)
(* not due, composed into one step.  Each such iteration only runs the     *)
(* staleness check and delay(100).                                         *)
(***************************************************************************)
QuietTargets == {lastGPSData + GPS_DATA_TIMEOUT,
                 lastLocationSend + LOCATION_SEND_INTERVAL}

TicksTo(target) == ((target - now) + LOOP_DELAY - 1) \div LOOP_DELAY

QuietTicks(n) ==
  /\ pc = "wifi_check"
  /\ iter < MaxIter
  /\ wifiUp
  /\ n >= 1
  /\ LET lastEval == now + (n - 1) * LOOP_DELAY   \* millis() in the last of the n
     IN /\ ~PeriodicDue(lastEval, lastLocationSend, gpsDataValid)
        /\ gpsLEDState' = StaleLED(Sub32(lastEval, lastGPSData), gpsLEDState)
  /\ now' = now + n * LOOP_DELAY
  /\ iter' = iter + 1
  /\ UNCHANGED <<pc, connRet, sendRet, envVars, faults, wifiLEDState,
                 systemLEDState, blinkVars, gpsVars, alertVars, startTime, timeOk,
                 geoStatus, obs>>

(***************************************************************************)
(* The specification.                                                      *)
(***************************************************************************)
Next ==
  \/ LinkChange
  \/ SetupBegin
  \/ \E d \in JoinDelays : ConnectBegin(d)
  \/ ConnectPoll
  \/ ConnectExit
  \/ ConnectFinal
  \/ \E d \in SyncDelays : SyncBegin(d)
  \/ SyncPoll
  \/ SyncExit
  \/ \E ok \in BOOLEAN : InitGeo(ok)
  \/ LoopWiFiCheck
  \/ \E ev \in RxEvents : GpsRead(ev)
  \/ GpsEnd
  \/ \E st \in GeoStatuses : GeoLoop(st)
  \/ PeriodicCheck
  \/ PeriodicDone
  \/ LoopDelay
  \/ SendBegin
  \/ \E res \in GeocodeResults : Geocode(res)
  \/ \E ok \in BOOLEAN : SmtpConnect(ok)
  \/ \E ok \in BOOLEAN : SendMail(ok)
  \/ \E target \in QuietTargets : QuietTicks(TicksTo(target))

Spec == Init /\ [][Next]_vars

(***************************************************************************)
(* One call of updateLEDs (lines 182-195) taken alone, from every          *)
(* combination of the three indicator states, the toggle bit, the clock    *)
(* and the time since the last flip.                                       *)
(***************************************************************************)
LEDStates == {LED_OFF, LED_ON, LED_BLINK_SLOW, LED_BLINK_FAST}
RenderElapsed == {0, LED_BLINK_INTERVAL - 1, LED_BLINK_INTERVAL}

RenderInit ==
  /\ now \in 0..MaxClock
  /\ pc = "render" /\ iter = 0
  /\ connRet = "none" /\ sendRet = "none"
  /\ wifiUp = FALSE /\ joinAt = 0 /\ syncAt = 0 /\ faults = 0 /\ rxTotal = 0
  /\ wifiLEDState \in LEDStates /\ gpsLEDState \in LEDStates
  /\ systemLEDState \in LEDStates
  /\ \E e \in RenderElapsed : lastLEDUpdate = IF now >= e THEN now - e ELSE 0
  /\ ledBlinkState \in BOOLEAN
  /\ pins = [wifi |-> FALSE, gps |-> FALSE, system |-> FALSE]
  /\ gpsDataValid = FALSE /\ firstGPSLock = TRUE
  /\ currentLocationName = "Unknown Location"
  /\ lastLocationSend = 0 /\ lastGPSData = 0
  /\ startTime = 0 /\ timeOk = FALSE
  /\ gpsDataReceived = FALSE /\ geoStatus = "none"
  /\ obs = ObsInit

RenderStep ==
  /\ pc = "render"
  /\ UpdateLEDs(now)
  /\ pc' = "rendered"
  /\ UNCHANGED <<now, iter, connRet, sendRet, envVars, faults, ledStateVars,
                 gpsVars, alertVars, startTime, timeOk, geoStatus, obs>>

RenderSpec == RenderInit /\ [][RenderStep]_vars

(***************************************************************************)
(* The periodic test of line 724 over the whole range of the millisecond   *)
(* counter: lastLocationSend holds any reading, the counter has since been *)
(* advanced by the time that really passed (wrapping at 2^32), and the     *)
(* test is evaluated once.  now and lastLocationSend hold [hi, lo] pairs.  *)
(***************************************************************************)
\* readings of millis() stored by line 726: early, mid-range, and within
\* LOCATION_SEND_INTERVAL of the wrap
WrapReadings ==
  { [hi |-> h, lo |-> l] : h \in {0, 32768, LimbBase - 5, LimbBase - 1},
                           l \in {0, 27680, LimbBase - 1} }

\* time really passed: around LOCATION_SEND_INTERVAL and up to 2^32 - 1
WrapElapsed ==
  LET lim == ToU32(LOCATION_SEND_INTERVAL)
  IN { [hi |-> h, lo |-> l] :
         h \in {0, lim.hi - 1, lim.hi, lim.hi + 1, 32768, LimbBase - 1},
         l \in {0, lim.lo - 1, lim.lo, lim.lo + 1, LimbBase - 1} }

WrapInit ==
  /\ lastLocationSend \in WrapReadings
  /\ \E d \in WrapElapsed :
       /\ now = AddU32(lastLocationSend, d)
       /\ obs = [ObsInit EXCEPT !.trueElapsed = d]
  /\ gpsDataValid \in BOOLEAN
  /\ pc = "wrap" /\ iter = 0
  /\ connRet = "none" /\ sendRet = "none"
  /\ wifiUp = TRUE /\ joinAt = 0 /\ syncAt = 0 /\ faults = 0 /\ rxTotal = 0
  /\ wifiLEDState = LED_ON /\ gpsLEDState = LED_OFF
  /\ systemLEDState = LED_OFF
  /\ lastLEDUpdate = 0 /\ ledBlinkState = FALSE
  /\ pins = [wifi |-> FALSE, gps |-> FALSE, system |-> FALSE]
  /\ firstGPSLock = FALSE
  /\ currentLocationName = "Unknown Location"
  /\ lastGPSData = 0
  /\ startTime = 0 /\ timeOk = TRUE
  /\ gpsDataReceived = FALSE /\ geoStatus = "none"

WrapStep ==
  /\ pc = "wrap"
  /\ obs' = [obs EXCEPT !.evalDone = TRUE,
                        !.evalElapsed = SubU32(now, lastLocationSend),
                        !.evalValid = gpsDataValid,
                        !.evalFired = PeriodicDueU32(now, lastLocationSend,
                                                     gpsDataValid),
                        !.evalLast = lastLocationSend]
  /\ pc' = "wrapped"
  /\ UNCHANGED <<now, iter, connRet, sendRet, envVars, faults, ledStateVars,
                 blinkVars, gpsVars, alertVars, startTime, timeOk, geoStatus>>

WrapSpec == WrapInit /\ [][WrapStep]_vars

(***************************************************************************)
(* Properties.                                                             *)
(***************************************************************************)
SendPoints == {"send", "geocode", "smtp", "sendmail"}
MaxPolls == WIFI_CONNECT_TIMEOUT \div POLL_DELAY
\* millis() at the first loop() iteration when setup() met no delay
BootTime == SETUP_DELAY + 3 * LED_TEST_DELAY

\* C1: once the first-lock alert has been triggered, no alert send is started
\* (no attempt arrives at the SMTP step) less than 300000 ms after the most
\* recent alert attempt of either kind.
C1_NoSendWithinInterval ==
  (pc = "smtp" /\ ~firstGPSLock /\ obs.lastAttemptAt # NoTime)
    => Sub32(now, obs.lastAttemptAt) >= LOCATION_SEND_INTERVAL

\* C2: the first-lock path runs at most once: the call of line 411 has been
\* executed exactly once when validity is true and never while it is false,
\* and firstGPSLock is false from that call on.
C2_FirstLockOnce ==
  /\ obs.firstLockCalls = (IF gpsDataValid THEN 1 ELSE 0)
  /\ firstGPSLock = (obs.firstLockCalls = 0)

\* C2 witness: the first-lock attempt was made in an earlier iteration, the
\* fix indicator has gone Off since, and a valid location is decoded again.
C2_Witness ==
  /\ pc = "gps" /\ gpsDataReceived
  /\ obs.ingPrevLED = LED_OFF /\ gpsLEDState = LED_ON
  /\ obs.lastAttemptAt # NoTime /\ ~obs.attemptInTick
  /\ obs.firstLockCalls = 1 /\ ~firstGPSLock

C4_Condition ==
  obs.evalElapsed >= LOCATION_SEND_INTERVAL /\ obs.evalValid /\ obs.evalLink

C4_TriggerExactlyWhen ==
  (obs.evalDone /\ ~firstGPSLock)
    => /\ obs.evalFired <=> C4_Condition
       /\ (pc = "delay" /\ ~C4_Condition) => lastLocationSend = obs.evalLast

\* C5: an iteration in which an alert attempt arrived at the SMTP step ends
\* with lastLocationSend set to an instant not before that attempt.
C5_AttemptSetsLastSent ==
  (pc = "delay" /\ obs.attemptInTick) => lastLocationSend >= obs.lastAttemptAt

C7_StaleForcesInvalid ==
  (obs.ingDone /\ ~obs.ingBytes /\ obs.ingSilence > GPS_DATA_TIMEOUT)
    => ~gpsDataValid

\* C8 (as stated): after an ingestion step that consumed nothing at least
\* 5000 ms after the last data, the fix indicator state is Off.
C8_OffAtTimeout ==
  (obs.ingDone /\ ~obs.ingBytes /\ obs.ingSilence >= GPS_DATA_TIMEOUT)
    => gpsLEDState = LED_OFF

\* C8 (amended): after an ingestion step that consumed nothing more than
\* 5000 ms after the last data, the fix indicator state is Off.
C8_OffAfterTimeout ==
  (obs.ingDone /\ ~obs.ingBytes /\ obs.ingSilence > GPS_DATA_TIMEOUT)
    => gpsLEDState = LED_OFF

\* C8 witness: the indicator was On when the step began and is Off after it.
C8_Witness ==
  /\ obs.ingDone /\ ~obs.ingBytes /\ obs.ingSilence > GPS_DATA_TIMEOUT
  /\ obs.ingPrevLED = LED_ON /\ gpsLEDState = LED_OFF

\* C9: when connectToWiFi has returned, the link indicator state is On if the
\* link was up at its final check and BlinkFast otherwise; an attempt that ran
\* its 20000 ms without success has ended in BlinkFast.
C9_ConnectOutcome ==
  /\ obs.connResult = "up" => wifiLEDState = LED_ON
  /\ obs.connResult = "down" => wifiLEDState = LED_BLINK_FAST
  /\ (obs.connResult # "none" /\ ~obs.connExitUp /\ obs.connResult = "down")
       => obs.connElapsed >= WIFI_CONNECT_TIMEOUT

\* C9 witness: an attempt polled for 20000 ms, the link never came up.
C9_Witness ==
  /\ obs.connResult = "down" /\ ~obs.connExitUp
  /\ obs.connElapsed = WIFI_CONNECT_TIMEOUT
  /\ wifiLEDState = LED_BLINK_FAST

\* C10: a connect attempt polls every 500 ms, leaves the poll loop only with
\* the link up or 20000 ms elapsed, never polls more than 40 times and can
\* always take its next step.
C10_ConnectPollsBounded ==
  /\ obs.connPolls <= MaxPolls
  /\ pc = "connect_loop" =>
       /\ Sub32(now, startTime) = obs.connPolls * POLL_DELAY
       /\ (ENABLED ConnectPoll) \/ (ENABLED ConnectExit)
  /\ pc = "connect_final" =>
       /\ obs.connElapsed = obs.connPolls * POLL_DELAY
       /\ obs.connExitUp \/ obs.connElapsed >= WIFI_CONNECT_TIMEOUT
       /\ ENABLED ConnectFinal

\* C10 witness: the loop was left after 40 polls with the link still down.
C10_Witness ==
  /\ pc = "connect_final" /\ obs.connPolls = MaxPolls /\ ~obs.connExitUp

Channels == {"wifi", "gps", "system"}
LEDStateOf ==
  [wifi |-> wifiLEDState, gps |-> gpsLEDState, system |-> systemLEDState]

\* what updateLEDs would write to the three pins from the current states
Rendered(t) ==
  [wifi |-> controlLED(wifiLEDState, ledBlinkState, t),
   gps |-> controlLED(gpsLEDState, ledBlinkState, t),
   system |-> controlLED(systemLEDState, ledBlinkState, t)]

\* C11: at the end of every loop() iteration (before its delay) the three LED
\* outputs are the rendering of the current indicator states and blink clock.
C11_RenderedEachTick == pc = "delay" => pins = Rendered(now)

\* C13: after a render pass every channel whose state is BlinkSlow is driven
\* to the value of the one shared toggle bit, and that bit flips only in a
\* pass that finds at least 500 ms elapsed since its last flip, which is then
\* recorded as the instant of the flip.
C13_SlowChannelsInPhase ==
  /\ [](pc = "rendered" =>
          \A c \in Channels :
            LEDStateOf[c] = LED_BLINK_SLOW => pins[c] = ledBlinkState)
  /\ [][ledBlinkState' # ledBlinkState =>
          (now - lastLEDUpdate >= 500 /\ lastLEDUpdate' = now)]_vars

\* C13 witness: a pass that flipped the bit to on with all three channels in
\* BlinkSlow, all three outputs on.
C13_Witness ==
  /\ pc = "rendered" /\ lastLEDUpdate = now /\ ledBlinkState
  /\ \A c \in Channels : LEDStateOf[c] = LED_BLINK_SLOW /\ pins[c]

\* C14: after a render pass at clock t a channel in BlinkFast is on exactly
\* when (t mod 400) < 200, a channel in Off is off and a channel in On is on,
\* whatever the toggle bit and the time of its last flip.
C14_FastBlinkRendering ==
  pc = "rendered" =>
    \A c \in Channels :
      /\ LEDStateOf[c] = LED_BLINK_FAST => (pins[c] <=> (now % 400) < 200)
      /\ LEDStateOf[c] = LED_OFF => ~pins[c]
      /\ LEDStateOf[c] = LED_ON => pins[c]

\* C14 witness: a BlinkFast channel is on while the toggle bit is off and a
\* BlinkSlow channel is off, in a pass that did not flip the bit.
C14_Witness ==
  /\ pc = "rendered" /\ lastLEDUpdate # now /\ ~ledBlinkState
  /\ wifiLEDState = LED_BLINK_FAST /\ pins.wifi
  /\ gpsLEDState = LED_BLINK_SLOW /\ ~pins.gps
  /\ systemLEDState = LED_OFF /\ ~pins.system

\* C15: a loop() iteration that has started can always take its next step:
\* no step of an iteration blocks for ever, whatever the collaborators answer.
C15_TickNeverBlocks == (iter > 0 /\ pc # "wifi_check") => ENABLED Next

\* the first-lock call of line 411 is in progress
FirstLockCallRunning == pc \in SendPoints /\ sendRet = "gps"

\* C16: once the first-lock call has returned, an alert attempt has arrived
\* at the SMTP step, whatever the link state was.
C16_FirstLockReachesSend ==
  (~firstGPSLock /\ ~FirstLockCallRunning /\ pc # "hung")
    => obs.lastAttemptAt # NoTime

\* C17: an iteration that ends with lastLocationSend changed is one in which
\* an alert attempt arrived at the SMTP step.
C17_LastSentOnlyOnAttempt ==
  (pc = "delay" /\ lastLocationSend # obs.evalLast) => obs.attemptInTick

\* C18 (as stated): firstGPSLock is false only if a mail has been sent
\* successfully.
C18_ClearedOnlyOnSuccess == ~firstGPSLock => obs.mailSent

\* C18 (amended): firstGPSLock is false exactly from the decoding of the
\* first complete frame with a valid location on; it is already false while
\* the first-lock call runs, whatever that call's outcome will be.
C18_ClearedOnFirstDecode ==
  /\ firstGPSLock <=> ~obs.usableDecoded
  /\ FirstLockCallRunning => ~firstGPSLock

\* C18 witness: the first-lock attempt arrived at the SMTP step and failed,
\* no mail was ever sent, and firstGPSLock is false.
C18_Witness ==
  /\ pc = "gps" /\ obs.firstLockCalls = 1 /\ obs.attemptInTick
  /\ ~obs.mailSent /\ ~firstGPSLock

\* characters were consumed by this ingestion step or at most 5000 ms before it
BytesSeenRecently == obs.ingBytes \/ obs.ingSilence <= GPS_DATA_TIMEOUT

\* C19: when updateGPSData has returned, the fix indicator state is Off if no
\* characters were seen recently, On if characters were seen recently and
\* validity is true, BlinkSlow if characters were seen recently and validity
\* is false.
C19_FixLedIsFunctionOfInputs ==
  obs.ingDone =>
    gpsLEDState = (IF ~BytesSeenRecently THEN LED_OFF
                   ELSE IF gpsDataValid THEN LED_ON ELSE LED_BLINK_SLOW)

\* C20: when loop() is about to call connectToWiFi after a detected drop, the
\* link indicator is Off (Disconnected): Connecting is never entered directly
\* from On (Connected) or from BlinkFast (Error).
C20_ReconnectFromDisconnected ==
  (pc = "connect_begin" /\ iter > 0) => wifiLEDState = LED_OFF

\* C21: at the end of a loop() iteration whose connectivity check found the
\* link up (so that no connect attempt was made in it), the link indicator
\* state is On.
C21_LinkLedAgreesWithLink ==
  (pc = "delay" /\ obs.connResult = "none" /\ obs.evalDone) => wifiLEDState = LED_ON

\* the statuses the claim calls warning- or error-worthy
GeoErrorStatuses == {"gps_error", "network_error", "bad_request", "parse_error",
                     "internal_server_error"}

\* C22: once geo.loop() has reported a warning- or error-worthy status and
\* the status has been handled, the system indicator state is not Off.
C22_StatusShownOnSystemLed ==
  (pc = "periodic" /\ geoStatus \in GeoErrorStatuses) => systemLEDState # LED_OFF

\* C23: the step that runs geo.loop() and handles its status, whatever the
\* status, leaves gpsDataValid, firstGPSLock, lastLocationSend, the link and
\* the link indicator unchanged and continues at the periodic test, which can
\* then be evaluated.
C23_StatusHandlingIsInert ==
  /\ [][pc = "geo" =>
          /\ gpsDataValid' = gpsDataValid /\ firstGPSLock' = firstGPSLock
          /\ lastLocationSend' = lastLocationSend
          /\ wifiUp' = wifiUp /\ wifiLEDState' = wifiLEDState
          /\ pc' = "periodic"]_vars
  /\ [](pc = "periodic" => ENABLED PeriodicCheck)

\* C23 witness: an undocumented status was handled in an iteration with a
\* valid fix, the first-lock alert behind and the link up.
C23_Witness ==
  /\ pc = "periodic" /\ geoStatus = "unknown"
  /\ gpsDataValid /\ ~firstGPSLock /\ wifiUp /\ wifiLEDState = LED_ON

SetupPoints ==
  {"setup", "connect_begin", "connect_loop", "connect_final", "sync_begin",
   "sync_loop", "initgeo"}

\* C24: when syncTime() has failed, setup() can always take its next step up
\* to the entry of loop(), and from the return of syncTime() on the system
\* indicator state is BlinkSlow (in particular not On).
C24_SyncFailureIsWarning ==
  /\ obs.syncFailed => systemLEDState = LED_BLINK_SLOW
  /\ (iter = 0 /\ pc \in SetupPoints) => ENABLED Next

\* C24 witness: loop() runs after a time synchronisation that polled for
\* 10000 ms and failed.
C24_Witness ==
  /\ obs.syncFailed /\ iter >= 1 /\ pc = "gps"
  /\ now >= TIME_SYNC_TIMEOUT /\ systemLEDState = LED_BLINK_SLOW

\* C25: sendLocationEmail runs only after this iteration's updateGPSData has
\* returned and its geo.loop() has been called, that is, only from the
\* periodic branch.
C25_SendOnlyInAlertStep ==
  pc \in SendPoints => (obs.ingDone /\ obs.evalDone /\ sendRet = "periodic_done")

\* C26 (as stated): when an alert attempt arrives at the SMTP step, the place
\* name is the looked-up address or the one failure sentinel.
C26_OneFailureSentinel ==
  pc = "smtp" => currentLocationName \in {"address", "Address lookup failed"}

\* C26 (amended): when an alert attempt arrives at the SMTP step, exactly one
\* lookup has been made for it and the place name is "Network unavailable" if
\* the link was down at the lookup, otherwise the looked-up address or
\* "Address lookup failed"; a lookup that has set the place name is followed
\* by the SMTP step.
C26_FailureSentinels ==
  /\ [](pc = "smtp" =>
          /\ obs.lookups = 1
          /\ ~wifiUp => currentLocationName = "Network unavailable"
          /\ wifiUp => currentLocationName \in {"address", "Address lookup failed"})
  /\ [][(pc = "geocode" /\ currentLocationName' # currentLocationName)
          => pc' = "smtp"]_vars

\* C26 witness: the link was down at the lookup and the attempt is at the
\* SMTP step with the sentinel of that case.
C26_Witness ==
  /\ pc = "smtp" /\ ~wifiUp /\ obs.lookups = 1
  /\ currentLocationName = "Network unavailable"

\* C27: the system indicator state is always Off or BlinkSlow, and no step
\* taken after setup() has returned changes it.
C27_SystemLedOffOrSlow ==
  /\ [](systemLEDState \in {LED_OFF, LED_BLINK_SLOW})
  /\ [][pc \notin SetupPoints => systemLEDState' = systemLEDState]_vars

\* C27 witness: the GeoLinker connect failed at startup, and at the end of a
\* later loop() iteration that made an alert attempt and handled a telemetry
\* status the system indicator state is still BlinkSlow.
C27_Witness ==
  /\ pc = "delay" /\ iter >= 2 /\ obs.attemptInTick
  /\ ~obs.syncFailed /\ systemLEDState = LED_BLINK_SLOW

\* C28: the periodic test is taken on the unsigned difference modulo 2^32:
\* whatever reading lastLocationSend holds and whatever time d < 2^32 ms has
\* really passed since, the difference computed is d and the branch is
\* entered exactly when d > 300000 (and the fix is valid), also when the
\* counter wrapped in between.
C28_IntervalTestSurvivesWrap ==
  (pc = "wrapped" /\ obs.evalDone) =>
    LET d == obs.trueElapsed
        limHi == LOCATION_SEND_INTERVAL \div LimbBase
        limLo == LOCATION_SEND_INTERVAL % LimbBase
    IN /\ obs.evalElapsed = d
       /\ obs.evalFired <=>
            (obs.evalValid /\ (d.hi > limHi \/ (d.hi = limHi /\ d.lo > limLo)))

\* C28 witness: the counter wrapped between the two readings (the later
\* reading is below the stored one), 300001 ms really passed, and the branch
\* was entered.
C28_Witness ==
  /\ pc = "wrapped" /\ obs.evalDone /\ obs.evalFired
  /\ GtU32(lastLocationSend, now)
  /\ obs.trueElapsed = ToU32(LOCATION_SEND_INTERVAL + 1)

=============================================================================
